---------------------------- MODULE Spec2Model ----------------------------
(***************************************************************************)
(* Model of apps/haste-inspector/src/DemEntities.tsx: the entity list and  *)
(* the entity field list of the demo inspector.  The state is the shared   *)
(* atoms (parser, view, selected entity), the component state of           *)
(* EntityList and EntityFieldList (filtered lists, field selection, the    *)
(* lastSelectedIndexRef anchor), the state transitions queued by           *)
(* startTransition and the passive effects React has scheduled but not     *)
(* yet run.  The engine's snapshot is the one of a single playback tick.   *)
(***************************************************************************)
EXTENDS Integers, Sequences, FiniteSets, TLC

(***************************************************************************)
(* Bounds of the model.                                                    *)
(***************************************************************************)
\* number of filter transitions that may be queued before one commits
MaxPending == 1
\* number of filter transitions of both lists together that may be queued
\* before one commits, where the queueing itself is studied
MaxQueued == 2

(***************************************************************************)
(* Encodings of JavaScript values.                                         *)
(***************************************************************************)
\* `undefined` where a number is expected (entity index, anchor index)
undefined == -1
\* `null` where a number is expected (linkedEntityIndex)
null == -2

\* an optional array: `undefined`, or the array itself
Absent == [def |-> FALSE, items |-> << >>]
Some(s) == [def |-> TRUE, items |-> s]
\* list?.length ?? 0
LengthOf(list) == IF list.def THEN Len(list.items) ELSE 0

Min(a, b) == IF a <= b THEN a ELSE b
Max(a, b) == IF a >= b THEN a ELSE b

(***************************************************************************)
(* Strings.  TLC evaluates Len, SubSeq and \o on strings.                  *)
(***************************************************************************)
Digits == "0123456789"
DigitChar(d) == SubSeq(Digits, d + 1, d + 1)
DigitValue(c) == CHOOSE d \in 0..9 : DigitChar(d) = c
IsDigit(c) == \E d \in 0..9 : DigitChar(d) = c

RECURSIVE toString(_)
\* Number.prototype.toString for a non-negative integer
toString(n) == IF n < 10 THEN DigitChar(n)
               ELSE toString(n \div 10) \o DigitChar(n % 10)

RECURSIVE padStart(_, _, _)
\* String.prototype.padStart with a one-character filler
padStart(s, width, fill) == IF Len(s) >= width THEN s
                            ELSE padStart(fill \o s, width, fill)

RECURSIVE join(_, _)
\* Array.prototype.join
join(parts, sep) == IF Len(parts) = 0 THEN ""
                    ELSE IF Len(parts) = 1 THEN parts[1]
                    ELSE parts[1] \o sep \o join(Tail(parts), sep)

\* String.prototype.startsWith
startsWith(s, prefix) == /\ Len(s) >= Len(prefix)
                         /\ SubSeq(s, 1, Len(prefix)) = prefix

RECURSIVE ToNumber(_)
\* unary plus on a string of decimal digits; NaN (modelled as `undefined`)
\* for anything else
ToNumber(s) ==
    IF Len(s) = 0 THEN 0
    ELSE IF \E k \in 1..Len(s) : ~IsDigit(SubSeq(s, k, k)) THEN undefined
    ELSE IF Len(s) = 1 THEN DigitValue(s)
    ELSE 10 * ToNumber(SubSeq(s, 1, Len(s) - 1))
         + DigitValue(SubSeq(s, Len(s), Len(s)))

(***************************************************************************)
(* The decoding engine (haste-wasm): handles and the per-tick snapshots.   *)
(***************************************************************************)
\* number of distinct entity indices a handle can address
EntIndexMod == 8
\* the handle value that refers to no entity
InvalidEHandle == 63

isEHandleValid(handle) == handle # InvalidEHandle
eHandleToIndex(handle) == handle % EntIndexMod

EntityLi(index, name) == [index |-> index, name |-> name]

EntityFieldLi(path, namedPath, encodedAs, decodedAs, value) ==
    [path |-> path, namedPath |-> namedPath, encodedAs |-> encodedAs,
     decodedAs |-> decodedAs, value |-> value]

\* demParser.listEntities(): entity 2 does not exist at the tick of the snapshot
listEntities == Some(<<EntityLi(0, "npc hero"), EntityLi(1, "world")>>)

\* demParser.listBaselineEntities()
listBaselineEntities == Some(<<EntityLi(0, "npc hero"), EntityLi(1, "world")>>)

\* demParser.listEntityFields(entityIndex), in the engine's order
listEntityFields(entityIndex) ==
    CASE entityIndex = 0 ->
           Some(<<EntityFieldLi(<<0, 1>>, <<"m", "b">>, "CHandle< CBaseEntity >", "u32", "1"),
                  EntityFieldLi(<<1>>, <<"c">>, "CHandle< CBaseEntity >", "u32", "63"),
                  EntityFieldLi(<<0>>, <<"a">>, "int32", "i32", "5")>>)
      [] entityIndex = 1 ->
           Some(<<EntityFieldLi(<<0, 1>>, <<"m", "b">>, "CHandle< CBaseEntity >", "u32", "10"),
                  EntityFieldLi(<<0>>, <<"a">>, "CHandl", "u32", "1")>>)
      [] OTHER -> Absent

\* demParser.listBaselineEntityFields(entityIndex)
listBaselineEntityFields(entityIndex) ==
    CASE entityIndex = 0 ->
           Some(<<EntityFieldLi(<<1>>, <<"c">>, "CHandle< CBaseEntity >", "u32", "1"),
                  EntityFieldLi(<<0>>, <<"a">>, "int32", "i32", "0")>>)
      [] entityIndex = 1 -> Some(<< >>)
      [] OTHER -> Absent

\* the entity indices of the snapshots above
EntityIndices == {0, 1, 2}

(***************************************************************************)
(* Normalize stage of the field pipeline (EntityFieldList, useMemo).       *)
(***************************************************************************)
\* a faulty key without the padding
joinedPathUnpadded(path) == join([k \in 1..Len(path) |-> toString(path[k])], "")

RECURSIVE joinedPathOf(_)
\* Array.from(path).map((part) => part.toString().padStart(4, " ")).join("")
joinedPathOf(path) ==
    IF Len(path) = 0 THEN ""
    ELSE padStart(toString(path[1]), 4, " ") \o joinedPathOf(Tail(path))

\* one element of the mapped list
Wrap(entityField) ==
    [inner |-> entityField,
     joinedPath |-> joinedPathOf(entityField.path),
     joinedNamedPath |-> join(entityField.namedPath, ".")]

\* a faulty comparator without the rule for a path that starts another
comparePathsFromNoTieBreak(a, b, i) ==
    LET differ == {k \in i..Min(Len(a), Len(b)) : a[k] # b[k]}
    IN  IF differ = {} THEN 0
        ELSE a[CHOOSE k \in differ : \A m \in differ : k <= m]
                 - b[CHOOSE k \in differ : \A m \in differ : k <= m]

RECURSIVE comparePathsFrom(_, _, _)
\* the sort comparator: negative, zero or positive
comparePathsFrom(a, b, i) ==
    IF i > Min(Len(a), Len(b)) THEN Len(a) - Len(b)
    ELSE IF a[i] # b[i] THEN a[i] - b[i]
    ELSE comparePathsFrom(a, b, i + 1)

comparePaths(a, b) == comparePathsFrom(a.inner.path, b.inner.path, 1)

RECURSIVE insertSorted(_, _)
insertSorted(sorted, x) ==
    IF Len(sorted) = 0 THEN <<x>>
    ELSE IF comparePaths(x, Head(sorted)) < 0 THEN <<x>> \o sorted
    ELSE <<Head(sorted)>> \o insertSorted(Tail(sorted), x)

RECURSIVE sortFrom(_, _, _)
sortFrom(list, k, acc) ==
    IF k > Len(list) THEN acc
    ELSE sortFrom(list, k + 1, insertSorted(acc, list[k]))

\* Array.prototype.sort with the comparator above (a stable sort)
sort(list) == sortFrom(list, 1, << >>)

\* tmpEntityFieldList.map(...) followed by entityFieldList.sort(...)
normalize(tmpEntityFieldList) ==
    sort([k \in 1..Len(tmpEntityFieldList) |-> Wrap(tmpEntityFieldList[k])])

\* the memoized { entityFieldList } of EntityFieldList
entityFieldListOf(parser, view, selectedEntityIndex) ==
    IF selectedEntityIndex = undefined THEN Absent
    ELSE LET tmpEntityFieldList ==
                 IF ~parser THEN Absent
                 ELSE IF view = "entities"
                      THEN listEntityFields(selectedEntityIndex)
                 ELSE IF view = "baselineEntities"
                      THEN listBaselineEntityFields(selectedEntityIndex)
                 ELSE Absent
         IN  IF tmpEntityFieldList.def
             THEN Some(normalize(tmpEntityFieldList.items))
             ELSE Absent

\* the memoized entityList of EntityList
entityListOf(parser, view) ==
    IF ~parser THEN Absent
    ELSE IF view = "entities" THEN listEntities
    ELSE IF view = "baselineEntities" THEN listBaselineEntities
    ELSE Absent

(***************************************************************************)
(* State.                                                                  *)
(***************************************************************************)
VARIABLES
    demParser,                \* demParserAtom: TRUE once the engine is loaded
    demView,                  \* demViewAtom
    demSelectedEntityIndex,   \* demSelectedEntityIndexAtom, or undefined
    filteredEntityList,       \* EntityList: useState(entityList)
    entityTransitions,        \* EntityList: setFinalEntityList calls queued by startTransition
    filteredEntityFieldList,  \* EntityFieldList: useState(entityFieldList)
    fieldTransitions,         \* EntityFieldList: setFinalEntityFieldList calls queued by startTransition
    selectedFieldPaths,       \* EntityFieldList: useState<Set<string>>
    lastSelectedIndexRef,     \* EntityFieldList: useRef<number | undefined>, its .current
    resetPending,             \* the effect on [demSelectedEntityIndex, demView] is scheduled
    prunePending,             \* the effect on [filteredEntityFieldList] is scheduled
    lastEvent,                \* history: the step taken last, its inputs and the state before it
    chain,                    \* history: the field click that a click on the same row,
                              \* with no other event in between, repeats
    probe                     \* the argument and the result of a function that is
                              \* studied on its own; the components leave it alone

vars == <<demParser, demView, demSelectedEntityIndex, filteredEntityList,
          entityTransitions, filteredEntityFieldList, fieldTransitions,
          selectedFieldPaths, lastSelectedIndexRef, resetPending, prunePending,
          lastEvent, chain, probe>>

Views == {"entities", "baselineEntities"}

\* the name predicates the filter bar hands to onUpdate: each is the set of
\* names it accepts
SearchCmpFns == {{"a", "c"}, {}}
\* the same for the entity list
EntitySearchCmpFns == {}
\* the name predicates of the entity list where the filter itself is studied
FilterEntitySearchCmpFns == {{"world"}, {}}
\* searchCmpFn is undefined when the search is cleared
NoSearch == {"*"}

\* the memoized lists for every value of their dependencies
entityListMemo ==
    [parser \in BOOLEAN, view \in Views |-> entityListOf(parser, view)]
entityFieldListMemo ==
    [parser \in BOOLEAN, view \in Views,
     selectedEntityIndex \in EntityIndices \cup {undefined} |->
        entityFieldListOf(parser, view, selectedEntityIndex)]

entityList == entityListMemo[demParser, demView]
entityFieldList ==
    entityFieldListMemo[demParser, demView, demSelectedEntityIndex]

\* the longest field list of the snapshots
MaxRows == 3

\* every row the field list can show
AllFieldItems ==
    UNION {{entityFieldListMemo[key].items[k] :
               k \in 1..Len(entityFieldListMemo[key].items)} :
           key \in DOMAIN entityFieldListMemo}

\* no function is being studied
NoProbe == [fn |-> "none", fields |-> << >>, sorted |-> << >>, name |-> "",
            result |-> ""]

NoChain == [kind |-> "none", itemIndex |-> undefined, selected |-> {}]

\* the step has handed nothing to triggerDownload
NoDownload ==
    [filename |-> "", mimeType |-> "", lines |-> << >>, view |-> "",
     entities |-> << >>, fields |-> << >>]

\* a history record: the step taken last, the case of it that happened and
\* what it handed to triggerDownload
Event(kind) ==
    [kind |-> kind, mode |-> "", eager |-> TRUE, selectionChanged |-> FALSE,
     navigated |-> FALSE, repeated |-> FALSE, superseded |-> FALSE,
     shiftKey |-> FALSE, anchor |-> "none", download |-> NoDownload]

\* the state of the two components when they are mounted
Mounted ==
    /\ demParser = FALSE
    /\ demView = "entities"
    /\ demSelectedEntityIndex = undefined
    /\ filteredEntityList = Absent
    /\ entityTransitions = << >>
    /\ filteredEntityFieldList = Absent
    /\ fieldTransitions = << >>
    /\ selectedFieldPaths = {}
    /\ lastSelectedIndexRef = undefined
    /\ resetPending = FALSE
    /\ prunePending = FALSE
    /\ chain = NoChain
    /\ lastEvent = Event("mount")

\* the components when a function is studied on its own: they stay mounted
mountedVars == <<demParser, demView, demSelectedEntityIndex, filteredEntityList,
                 entityTransitions, filteredEntityFieldList, fieldTransitions,
                 selectedFieldPaths, lastSelectedIndexRef, resetPending,
                 prunePending, lastEvent, chain>>

Init ==
    /\ demParser = FALSE
    /\ demView = "entities"
    /\ demSelectedEntityIndex = undefined
    /\ filteredEntityList = Absent
    /\ entityTransitions = << >>
    /\ filteredEntityFieldList = Absent
    /\ fieldTransitions = << >>
    /\ selectedFieldPaths = {}
    /\ lastSelectedIndexRef = undefined
    /\ resetPending = FALSE
    /\ prunePending = FALSE
    /\ chain = NoChain
    /\ lastEvent = Event("mount")
    /\ probe = NoProbe

(***************************************************************************)
(* Filter stage: the body of the startTransition callbacks.                *)
(***************************************************************************)
\* a faulty field filter that tests the sort key in place of the display name
filterFieldEntriesOnSortKey(entries, searchCmpFn) ==
    IF searchCmpFn # NoSearch
    THEN IF entries.def
         THEN LET keep(entry) == entry.joinedPath \in searchCmpFn
              IN  Some(SelectSeq(entries.items, keep))
         ELSE Absent
    ELSE entries

\* EntityFieldList.handleFilterUpdate: the value handed to setFinalEntityFieldList
filterFieldEntries(entries, searchCmpFn) ==
    IF searchCmpFn # NoSearch
    THEN IF entries.def
         THEN LET keep(entry) == entry.joinedNamedPath \in searchCmpFn
              IN  Some(SelectSeq(entries.items, keep))
         ELSE Absent
    ELSE entries

\* EntityList.handleFilterUpdate: the value handed to setFinalEntityList
filterEntityEntries(entries, searchCmpFn) ==
    IF searchCmpFn # NoSearch
    THEN IF entries.def
         THEN LET keep(entry) == entry.name \in searchCmpFn
              IN  Some(SelectSeq(entries.items, keep))
         ELSE Absent
    ELSE entries

\* a faulty commit that lets the oldest queued update win
committedValueOldest(transitions) == transitions[1]

\* the state after React has applied the queued setFinal...List(value) updates
\* in the order of their submission: the value of the last one
committedValue(transitions) == transitions[Len(transitions)]

\* an update older than the last one would have committed another list
supersedes(transitions) ==
    \E k \in 1..(Len(transitions) - 1) :
        transitions[k] # transitions[Len(transitions)]

(***************************************************************************)
(* Selection state machine of EntityFieldList.                             *)
(***************************************************************************)
\* the names of the rows of a list
availablePaths(list) ==
    {list.items[k].joinedNamedPath : k \in 1..LengthOf(list)}

\* a faulty reset that keeps the selection
resetSelectionKeeps(prev) == prev

\* the reset effect's updater: prev.size ? new Set() : prev
resetSelection(prev) == IF Cardinality(prev) # 0 THEN {} ELSE prev

\* a faulty prune that keeps every member
pruneSelectionKeeps(prev, list) == prev

\* the prune effect's updater over a non-empty list
pruneSelection(prev, list) ==
    {path \in prev : path \in availablePaths(list)}

\* a faulty range that holds the two rows at its ends alone
rangeSelectionEnds(list, refCurrent, itemIndex) ==
    {list.items[i + 1].joinedNamedPath :
        i \in {j \in {refCurrent, itemIndex} : j + 1 \in 1..LengthOf(list)}}

\* a faulty range that indexes the unfiltered list
rangeSelectionUnfiltered(list, refCurrent, itemIndex) ==
    LET start == Min(refCurrent, itemIndex)
        end == Max(refCurrent, itemIndex)
    IN  {entityFieldList.items[i + 1].joinedNamedPath :
            i \in {j \in start..end : j + 1 \in 1..LengthOf(entityFieldList)}}

\* the shift branch of the updater: rows start..end that exist (0-based)
rangeSelection(list, refCurrent, itemIndex) ==
    LET start == Min(refCurrent, itemIndex)
        end == Max(refCurrent, itemIndex)
    IN  {list.items[i + 1].joinedNamedPath :
            i \in {j \in start..end : j + 1 \in 1..LengthOf(list)}}

\* a faulty toggle that only ever adds
toggleSelectionAdds(prev, path) == prev \cup {path}

\* the ctrl/meta branch of the updater
toggleSelection(prev, path) ==
    IF path \in prev THEN prev \ {path} ELSE prev \cup {path}

\* a faulty plain click that deselects the sole selected row
plainSelectionDeselects(prev, path) ==
    IF Cardinality(prev) = 1 /\ path \in prev THEN {} ELSE {path}

\* the plain branch of the updater
plainSelection(prev, path) ==
    IF Cardinality(prev) = 1 /\ path \in prev THEN prev ELSE {path}

\* a faulty updater that ignores a shift click without an anchor
selectionUpdaterNeedsAnchor(prev, event, refCurrent, itemIndex, path, list) ==
    IF event.shiftKey
    THEN IF refCurrent # undefined
         THEN rangeSelection(list, refCurrent, itemIndex)
         ELSE prev
    ELSE IF event.metaKey \/ event.ctrlKey
    THEN toggleSelection(prev, path)
    ELSE plainSelection(prev, path)

\* the updater handed to setSelectedFieldPaths by updateSelection;
\* refCurrent is lastSelectedIndexRef.current when the updater is evaluated
selectionUpdater(prev, event, refCurrent, itemIndex, path, list) ==
    IF event.shiftKey /\ refCurrent # undefined
    THEN rangeSelection(list, refCurrent, itemIndex)
    ELSE IF event.metaKey \/ event.ctrlKey
    THEN toggleSelection(prev, path)
    ELSE plainSelection(prev, path)

\* a faulty reset effect that keeps the anchor
refAfterResetKeeps(refCurrent) == refCurrent

\* lastSelectedIndexRef.current after the reset effect
refAfterReset(refCurrent) == undefined

\* a faulty prune effect that clears the anchor whatever the list is
refAfterPruneClears(refCurrent, list) == undefined

\* lastSelectedIndexRef.current after the prune effect: cleared when the list
\* is empty or absent, left alone otherwise
refAfterPrune(refCurrent, list) ==
    IF LengthOf(list) = 0 THEN undefined ELSE refCurrent

\* lastSelectedIndexRef.current after updateSelection
refAfterUpdateSelection(refCurrent, itemIndex) == itemIndex

\* what lastSelectedIndexRef.current holds when React evaluates the updater:
\* eagerly inside setSelectedFieldPaths (the fiber has no pending work), or
\* while rendering, after updateSelection has returned
refSeenByUpdater(eager, refCurrent, itemIndex) ==
    IF eager THEN refCurrent ELSE refAfterUpdateSelection(refCurrent, itemIndex)

(***************************************************************************)
(* Entity selection and handle navigation.                                 *)
(***************************************************************************)
\* a faulty entity click that never clears
entityClickAlwaysSelects(prevEntityIndex, entityIndex) == entityIndex

\* EntityList.handleClick: the updater handed to setDemSelectedEntityIndex
entityClickUpdater(prevEntityIndex, entityIndex) ==
    IF prevEntityIndex = entityIndex THEN undefined ELSE entityIndex

\* the row's linkedEntIdx
linkedEntIdxOf(entityFieldItem) ==
    LET handle == startsWith(entityFieldItem.inner.encodedAs, "CHandle")
        handleValid == handle /\ isEHandleValid(ToNumber(entityFieldItem.inner.value))
    IN  IF handleValid THEN eHandleToIndex(ToNumber(entityFieldItem.inner.value))
        ELSE null

\* linkedEntIdx of every row, computed once per row
linkedEntIdxMemo == [item \in AllFieldItems |-> linkedEntIdxOf(item)]

\* a faulty navigation test that ignores the modifier keys
navigatesIgnoringModifiers(linkedEntityIndex, event) ==
    linkedEntityIndex # null

\* a faulty navigation test that asks for the ctrl key
navigatesOnCtrl(linkedEntityIndex, event) ==
    /\ linkedEntityIndex # null
    /\ event.ctrlKey

\* handleFieldClick: whether the click navigates
navigates(linkedEntityIndex, event) ==
    /\ linkedEntityIndex # null
    /\ ~event.metaKey
    /\ ~event.ctrlKey
    /\ ~event.shiftKey

\* a faulty navigation that never clears
linkedEntityAlwaysSelects(prevEntityIndex, linkedEntityIndex) == linkedEntityIndex

\* handleFieldClick: the updater handed to setDemSelectedEntityIndex
linkedEntityUpdater(prevEntityIndex, linkedEntityIndex) ==
    IF prevEntityIndex = linkedEntityIndex THEN undefined ELSE linkedEntityIndex

(***************************************************************************)
(* Exports.  A download is the file name, the MIME type and the content:   *)
(* the lines of a text file, or the view, the entities and the fields of   *)
(* a JSON payload.                                                         *)
(***************************************************************************)
\* the tick of the snapshots (demTickAtom); the model keeps one tick
demTick == 0

\* EntityList: hasEntities
hasEntities(list) == LengthOf(list) > 0

\* one element of ExportEntity.fields
exportEntityField(field) ==
    [path |-> join(field.namedPath, "."), pathSegments |-> field.path,
     encodedAs |-> field.encodedAs, decodedAs |-> field.decodedAs,
     value |-> field.value]

\* a faulty collection that skips the entities without fields
collectEntitiesWithFields(parser, isBaselineView) ==
    IF ~parser THEN << >>
    ELSE LET entities ==
                 IF isBaselineView THEN listBaselineEntities ELSE listEntities
             fieldsOf(entityIndex) ==
                 IF isBaselineView THEN listBaselineEntityFields(entityIndex)
                 ELSE listEntityFields(entityIndex)
             hasFields(entity) == LengthOf(fieldsOf(entity.index)) > 0
             kept == IF entities.def THEN SelectSeq(entities.items, hasFields)
                     ELSE << >>
         IN  [k \in 1..Len(kept) |->
                 [index |-> kept[k].index,
                  name |-> kept[k].name,
                  fields |-> [j \in 1..Len(fieldsOf(kept[k].index).items) |->
                                 exportEntityField(fieldsOf(kept[k].index).items[j])]]]

\* EntityList.collectEntitiesForExport
collectEntitiesForExport(parser, isBaselineView) ==
    IF ~parser THEN << >>
    ELSE LET entities ==
                 IF isBaselineView THEN listBaselineEntities ELSE listEntities
             fieldsOf(entityIndex) ==
                 IF isBaselineView THEN listBaselineEntityFields(entityIndex)
                 ELSE listEntityFields(entityIndex)
         IN  IF LengthOf(entities) = 0 THEN << >>
             ELSE [k \in 1..Len(entities.items) |->
                      LET entity == entities.items[k]
                          fields == fieldsOf(entity.index)
                      IN  [index |-> entity.index,
                           name |-> entity.name,
                           fields |->
                               IF fields.def
                               THEN [j \in 1..Len(fields.items) |->
                                        exportEntityField(fields.items[j])]
                               ELSE << >>]]

\* collectEntitiesForExport for every value of its dependencies
collectEntitiesMemo ==
    [parser \in BOOLEAN, isBaselineView \in BOOLEAN |->
        collectEntitiesForExport(parser, isBaselineView)]

\* handleExportAllRaw: the lines pushed for one entity
entityLines(entity) ==
    <<"entity " \o toString(entity.index) \o ": " \o entity.name>>
    \o (IF Len(entity.fields) = 0 THEN <<"  (no fields)">>
        ELSE [j \in 1..Len(entity.fields) |->
                 "  " \o entity.fields[j].path \o ": " \o entity.fields[j].value])
    \o <<"">>

RECURSIVE allEntityLines(_)
\* handleExportAllRaw: the lines pushed by entitiesForExport.forEach
allEntityLines(entities) ==
    IF Len(entities) = 0 THEN << >>
    ELSE entityLines(Head(entities)) \o allEntityLines(Tail(entities))

RECURSIVE trimEnd(_)
\* String.prototype.trimEnd on the joined lines: the empty lines at the end go
trimEnd(lines) ==
    IF Len(lines) > 0 /\ lines[Len(lines)] = ""
    THEN trimEnd(SubSeq(lines, 1, Len(lines) - 1))
    ELSE lines

\* EntityList.baseFileName
entityListBaseFileName(isBaselineView) ==
    (IF isBaselineView THEN "baseline-entities" ELSE "entities")
    \o "-tick-" \o toString(demTick)

\* handleExportAllRaw: what it hands to triggerDownload
exportAllRawDownload(parser, isBaselineView) ==
    LET entitiesForExport == collectEntitiesMemo[parser, isBaselineView]
        viewName == IF isBaselineView THEN "baselineEntities" ELSE "entities"
    IN  IF Len(entitiesForExport) = 0 THEN NoDownload
        ELSE [NoDownload EXCEPT
                 !.filename = entityListBaseFileName(isBaselineView) \o "-fields.txt",
                 !.mimeType = "text/plain;charset=utf-8",
                 !.lines = trimEnd(<<"view: " \o viewName,
                                     "tick: " \o toString(demTick), "">>
                                   \o allEntityLines(entitiesForExport))]

\* handleExportAllJson: what it hands to triggerDownload
exportAllJsonDownload(parser, isBaselineView) ==
    LET entitiesForExport == collectEntitiesMemo[parser, isBaselineView]
        viewName == IF isBaselineView THEN "baselineEntities" ELSE "entities"
    IN  IF Len(entitiesForExport) = 0 THEN NoDownload
        ELSE [NoDownload EXCEPT
                 !.filename = entityListBaseFileName(isBaselineView) \o "-fields.json",
                 !.mimeType = "application/json",
                 !.view = viewName,
                 !.entities = entitiesForExport]

\* EntityFieldList: selectedFields
selectedFieldsOf(list, selected) ==
    IF ~list.def \/ Cardinality(selected) = 0 THEN << >>
    ELSE LET has(item) == item.joinedNamedPath \in selected
         IN  SelectSeq(list.items, has)

\* EntityFieldList: visibleFields
visibleFieldsOf(list) == IF list.def THEN list.items ELSE << >>

\* a faulty choice that falls back to the rows before the filter
exportableFieldsUnfiltered(list, selected) ==
    IF Len(selectedFieldsOf(list, selected)) > 0
    THEN selectedFieldsOf(list, selected)
    ELSE visibleFieldsOf(entityFieldList)

\* EntityFieldList: exportableFields
exportableFieldsOf(list, selected) ==
    IF Len(selectedFieldsOf(list, selected)) > 0
    THEN selectedFieldsOf(list, selected)
    ELSE visibleFieldsOf(list)

\* EntityFieldList: hasExportableFields
hasExportableFields(list, selected) == Len(exportableFieldsOf(list, selected)) > 0

\* EntityFieldList: selectedEntityName; the empty string when there is none
selectedEntityNameOf(parser, view, selectedEntityIndex) ==
    LET entities == entityListOf(parser, view)
        found == {k \in 1..LengthOf(entities) :
                     entities.items[k].index = selectedEntityIndex}
    IN  IF selectedEntityIndex = undefined \/ found = {} THEN ""
        ELSE entities.items[CHOOSE k \in found : \A m \in found : k <= m].name

\* the characters of the class [a-z0-9-_] with the flag i
FileNameChars == "abcdefghijklmnopqrstuvwxyzABCDEFGHIJKLMNOPQRSTUVWXYZ0123456789-_"
isFileNameChar(c) == \E k \in 1..Len(FileNameChars) : SubSeq(FileNameChars, k, k) = c

RECURSIVE dropOthers(_)
\* the string without the characters outside the class it starts with
dropOthers(s) ==
    IF Len(s) > 0 /\ ~isFileNameChar(SubSeq(s, 1, 1))
    THEN dropOthers(SubSeq(s, 2, Len(s)))
    ELSE s

RECURSIVE replaceOthers(_)
\* .replace(/[^a-z0-9-_]+/gi, "_")
replaceOthers(s) ==
    IF Len(s) = 0 THEN ""
    ELSE IF isFileNameChar(SubSeq(s, 1, 1))
    THEN SubSeq(s, 1, 1) \o replaceOthers(SubSeq(s, 2, Len(s)))
    ELSE "_" \o replaceOthers(dropOthers(s))

RECURSIVE dropUnderscores(_)
\* the string without the underscores it starts with
dropUnderscores(s) ==
    IF Len(s) > 0 /\ SubSeq(s, 1, 1) = "_"
    THEN dropUnderscores(SubSeq(s, 2, Len(s)))
    ELSE s

RECURSIVE collapseUnderscores(_)
\* .replace(/_{2,}/g, "_")
collapseUnderscores(s) ==
    IF Len(s) = 0 THEN ""
    ELSE IF SubSeq(s, 1, 1) = "_"
    THEN "_" \o collapseUnderscores(dropUnderscores(s))
    ELSE SubSeq(s, 1, 1) \o collapseUnderscores(SubSeq(s, 2, Len(s)))

RECURSIVE dropUnderscoresAtEnd(_)
\* the string without the underscores it ends with
dropUnderscoresAtEnd(s) ==
    IF Len(s) > 0 /\ SubSeq(s, Len(s), Len(s)) = "_"
    THEN dropUnderscoresAtEnd(SubSeq(s, 1, Len(s) - 1))
    ELSE s

\* .replace(/^_+|_+$/g, "")
trimUnderscores(s) == dropUnderscoresAtEnd(dropUnderscores(s))

\* a faulty sanitization that forgets the underscores at the ends
sanitizeUntrimmed(name) == collapseUnderscores(replaceOthers(name))

\* EntityFieldList.baseFileName: sanitizedName of a name that is not empty
sanitize(name) == trimUnderscores(collapseUnderscores(replaceOthers(name)))

\* EntityFieldList.baseFileName
fieldListBaseFileName(view, selectedEntityIndex, selectedEntityName) ==
    LET prefix == IF view = "baselineEntities" THEN "baseline-entity" ELSE "entity"
        sanitizedName == IF selectedEntityName # "" THEN sanitize(selectedEntityName)
                         ELSE ""
        indexSegment == toString(selectedEntityIndex)
    IN  IF selectedEntityIndex = undefined THEN prefix
        ELSE IF sanitizedName # ""
        THEN prefix \o "-" \o indexSegment \o "-" \o sanitizedName
        ELSE prefix \o "-" \o indexSegment

\* baseFileName of EntityFieldList for every value of its dependencies
fieldListBaseFileNameMemo ==
    [parser \in BOOLEAN, view \in Views,
     selectedEntityIndex \in EntityIndices \cup {undefined} |->
        fieldListBaseFileName(view, selectedEntityIndex,
            selectedEntityNameOf(parser, view, selectedEntityIndex))]

\* a faulty handler that writes a file even when there is nothing to export
exportRawDownloadAlways(exportableFields, baseFileName) ==
    [NoDownload EXCEPT
        !.filename = baseFileName \o "-fields.txt",
        !.mimeType = "text/plain;charset=utf-8",
        !.lines = [k \in 1..Len(exportableFields) |->
                      exportableFields[k].joinedNamedPath \o ": "
                          \o exportableFields[k].inner.value]]

\* handleExportRaw: what it hands to triggerDownload
exportRawDownload(exportableFields, baseFileName) ==
    IF Len(exportableFields) = 0 THEN NoDownload
    ELSE [NoDownload EXCEPT
             !.filename = baseFileName \o "-fields.txt",
             !.mimeType = "text/plain;charset=utf-8",
             !.lines = [k \in 1..Len(exportableFields) |->
                           exportableFields[k].joinedNamedPath \o ": "
                               \o exportableFields[k].inner.value]]

\* handleExportJson: what it hands to triggerDownload
exportJsonDownload(exportableFields, baseFileName) ==
    IF Len(exportableFields) = 0 THEN NoDownload
    ELSE [NoDownload EXCEPT
             !.filename = baseFileName \o "-fields.json",
             !.mimeType = "application/json",
             !.fields = [k \in 1..Len(exportableFields) |->
                            [path |-> exportableFields[k].joinedNamedPath,
                             encodedAs |-> exportableFields[k].inner.encodedAs,
                             decodedAs |-> exportableFields[k].inner.decodedAs,
                             value |-> exportableFields[k].inner.value]]]

(***************************************************************************)
(* Steps.  A click handler and the synchronous render it causes are one    *)
(* step; a passive effect that render schedules is a step of its own.  The *)
(* effect of a render caused by a click is flushed before the next event   *)
(* (no step but the effect is enabled while resetPending); the effect of a *)
(* transition's render may be preceded by further events.                  *)
(***************************************************************************)
\* the parser atom is set once the demo file is loaded
LoadParser ==
    /\ ~resetPending /\ ~prunePending
    /\ ~demParser
    /\ demParser' = TRUE
    /\ UNCHANGED probe
    /\ lastEvent' = Event("other")
    /\ chain' = NoChain
    /\ UNCHANGED <<demView, demSelectedEntityIndex, filteredEntityList,
                   entityTransitions, filteredEntityFieldList, fieldTransitions,
                   selectedFieldPaths, lastSelectedIndexRef, resetPending,
                   prunePending>>

\* the view atom is set by the view switch; the reset effect depends on it
ViewChange(view) ==
    /\ ~resetPending /\ ~prunePending
    /\ view # demView
    /\ demView' = view
    /\ resetPending' = TRUE
    /\ UNCHANGED probe
    /\ lastEvent' = Event("viewChange")
    /\ chain' = NoChain
    /\ UNCHANGED <<demParser, demSelectedEntityIndex, filteredEntityList,
                   entityTransitions, filteredEntityFieldList, fieldTransitions,
                   selectedFieldPaths, lastSelectedIndexRef, prunePending>>

\* EntityList.handleClick on a rendered row whose data-entidx is entityIndex
EntityClick(entityIndex) ==
    /\ ~resetPending /\ ~prunePending
    /\ \E k \in 1..LengthOf(filteredEntityList) :
           filteredEntityList.items[k].index = entityIndex
    /\ demSelectedEntityIndex' =
           IF entityIndex >= 0
           THEN entityClickUpdater(demSelectedEntityIndex, entityIndex)
           ELSE demSelectedEntityIndex
    /\ resetPending' = (demSelectedEntityIndex' # demSelectedEntityIndex)
    /\ UNCHANGED probe
    /\ lastEvent' = Event("entityClick")
    /\ chain' = NoChain
    /\ UNCHANGED <<demParser, demView, filteredEntityList,
                   entityTransitions, filteredEntityFieldList, fieldTransitions,
                   selectedFieldPaths, lastSelectedIndexRef, prunePending>>

\* EntityList.handleFilterUpdate, called by the filter bar with the entries it
\* was given: the transition is queued
queueEntityFilter(searchCmpFn) ==
    /\ ~resetPending /\ ~prunePending
    /\ entityTransitions' =
           Append(entityTransitions, filterEntityEntries(entityList, searchCmpFn))
    /\ UNCHANGED probe
    /\ lastEvent' = Event("other")
    /\ chain' = NoChain
    /\ UNCHANGED <<demParser, demView, demSelectedEntityIndex,
                   filteredEntityList, filteredEntityFieldList, fieldTransitions,
                   selectedFieldPaths, lastSelectedIndexRef, resetPending,
                   prunePending>>

\* the same, while fewer than MaxPending transitions of the list are queued
EntityFilterUpdate(searchCmpFn) ==
    /\ Len(entityTransitions) < MaxPending
    /\ queueEntityFilter(searchCmpFn)

\* the same, while fewer than MaxQueued transitions are queued in all
EntityFilterResubmit(searchCmpFn) ==
    /\ Len(entityTransitions) + Len(fieldTransitions) < MaxQueued
    /\ queueEntityFilter(searchCmpFn)

\* React renders the queued transitions of EntityList: the updates are applied
\* in order, so the state is the value of the last one
EntityFilterCommit ==
    /\ ~resetPending /\ ~prunePending
    /\ Len(entityTransitions) > 0
    /\ filteredEntityList' = committedValue(entityTransitions)
    /\ entityTransitions' = << >>
    /\ UNCHANGED probe
    /\ lastEvent' = [Event("other") EXCEPT
                        !.superseded = supersedes(entityTransitions)]
    /\ chain' = NoChain
    /\ UNCHANGED <<demParser, demView, demSelectedEntityIndex,
                   filteredEntityFieldList, fieldTransitions, selectedFieldPaths,
                   lastSelectedIndexRef, resetPending, prunePending>>

\* EntityFieldList.handleFilterUpdate, called by the filter bar with the
\* entries it was given: the transition is queued
queueFieldFilter(searchCmpFn) ==
    /\ ~resetPending /\ ~prunePending
    /\ fieldTransitions' =
           Append(fieldTransitions, filterFieldEntries(entityFieldList, searchCmpFn))
    /\ UNCHANGED probe
    /\ lastEvent' = Event("other")
    /\ chain' = NoChain
    /\ UNCHANGED <<demParser, demView, demSelectedEntityIndex,
                   filteredEntityList, entityTransitions, filteredEntityFieldList,
                   selectedFieldPaths, lastSelectedIndexRef, resetPending,
                   prunePending>>

\* the same, while fewer than MaxPending transitions of the list are queued
FieldFilterUpdate(searchCmpFn) ==
    /\ Len(fieldTransitions) < MaxPending
    /\ queueFieldFilter(searchCmpFn)

\* the same, while fewer than MaxQueued transitions are queued in all
FieldFilterResubmit(searchCmpFn) ==
    /\ Len(entityTransitions) + Len(fieldTransitions) < MaxQueued
    /\ queueFieldFilter(searchCmpFn)

\* React renders the queued transitions of EntityFieldList and schedules the
\* effect that depends on filteredEntityFieldList
FieldFilterCommit ==
    /\ ~resetPending /\ ~prunePending
    /\ Len(fieldTransitions) > 0
    /\ filteredEntityFieldList' = committedValue(fieldTransitions)
    /\ fieldTransitions' = << >>
    /\ prunePending' = TRUE
    /\ UNCHANGED probe
    /\ lastEvent' = [Event("other") EXCEPT
                        !.superseded = supersedes(fieldTransitions)]
    /\ chain' = NoChain
    /\ UNCHANGED <<demParser, demView, demSelectedEntityIndex,
                   filteredEntityList, entityTransitions, selectedFieldPaths,
                   lastSelectedIndexRef, resetPending>>

\* what the anchor is when a click arrives: none, a row of the list, or an
\* index the list does not have
anchorKind(refCurrent, list) ==
    IF refCurrent = undefined THEN "none"
    ELSE IF refCurrent < LengthOf(list) THEN "row"
    ELSE "stale"

\* the branch of the updater a click takes
clickMode(event, refCurrent) ==
    IF event.shiftKey /\ refCurrent # undefined THEN "range"
    ELSE IF event.metaKey \/ event.ctrlKey THEN "toggle"
    ELSE "plain"

\* handleFieldClick on the rendered row itemIndex (0-based): updateSelection,
\* then the navigation.  The updater reads the ref only when shift is held, so
\* the time of its evaluation is an input of shift clicks alone.
FieldClick(itemIndex, ctrlKey, metaKey, shiftKey, eager) ==
    /\ ~resetPending
    /\ itemIndex \in 0..(LengthOf(filteredEntityFieldList) - 1)
    /\ eager \/ shiftKey
    /\ LET entityFieldItem == filteredEntityFieldList.items[itemIndex + 1]
           path == entityFieldItem.joinedNamedPath
           linkedEntityIndex == linkedEntIdxMemo[entityFieldItem]
           event == [ctrlKey |-> ctrlKey, metaKey |-> metaKey, shiftKey |-> shiftKey]
           returnsEarly == LengthOf(filteredEntityFieldList) = 0
           refSeen == refSeenByUpdater(eager, lastSelectedIndexRef, itemIndex)
           nextSelected ==
               IF returnsEarly THEN selectedFieldPaths
               ELSE selectionUpdater(selectedFieldPaths, event, refSeen,
                                     itemIndex, path, filteredEntityFieldList)
           nextEntityIndex ==
               IF navigates(linkedEntityIndex, event)
               THEN linkedEntityUpdater(demSelectedEntityIndex, linkedEntityIndex)
               ELSE demSelectedEntityIndex
       IN  /\ lastSelectedIndexRef' =
                  IF returnsEarly THEN lastSelectedIndexRef
                  ELSE refAfterUpdateSelection(lastSelectedIndexRef, itemIndex)
           /\ UNCHANGED probe
           /\ lastEvent' = [Event("fieldClick") EXCEPT
                               !.mode = clickMode(event, refSeen),
                               !.eager = eager,
                               !.selectionChanged =
                                   (nextSelected # selectedFieldPaths),
                               !.navigated = navigates(linkedEntityIndex, event),
                               !.shiftKey = shiftKey,
                               !.anchor =
                                   anchorKind(lastSelectedIndexRef,
                                              filteredEntityFieldList),
                               !.repeated =
                                   /\ chain.itemIndex = itemIndex
                                   /\ \/ /\ chain.kind = "toggle"
                                         /\ clickMode(event, lastSelectedIndexRef) = "toggle"
                                      \/ /\ chain.kind = "nav"
                                         /\ navigates(linkedEntityIndex, event)]
           /\ selectedFieldPaths' = nextSelected
           /\ demSelectedEntityIndex' = nextEntityIndex
           /\ resetPending' = (nextEntityIndex # demSelectedEntityIndex)
           /\ chain' =
                  IF clickMode(event, lastSelectedIndexRef) = "toggle"
                  THEN [kind |-> "toggle", itemIndex |-> itemIndex,
                        selected |-> selectedFieldPaths]
                  ELSE IF navigates(linkedEntityIndex, event)
                          /\ demSelectedEntityIndex # linkedEntityIndex
                  THEN [kind |-> "nav", itemIndex |-> itemIndex,
                        selected |-> selectedFieldPaths]
                  ELSE NoChain
    /\ UNCHANGED <<demParser, demView, filteredEntityList,
                   entityTransitions, filteredEntityFieldList, fieldTransitions,
                   prunePending>>

\* useEffect(..., [demSelectedEntityIndex, demView])
ResetEffect ==
    /\ resetPending
    /\ lastSelectedIndexRef' = refAfterReset(lastSelectedIndexRef)
    /\ selectedFieldPaths' = resetSelection(selectedFieldPaths)
    /\ resetPending' = FALSE
    /\ UNCHANGED probe
    /\ lastEvent' = [Event("resetEffect") EXCEPT
                        !.selectionChanged = (selectedFieldPaths' # selectedFieldPaths)]
    /\ UNCHANGED <<demParser, demView, demSelectedEntityIndex,
                   filteredEntityList, entityTransitions, filteredEntityFieldList,
                   fieldTransitions, prunePending, chain>>

\* useEffect(..., [filteredEntityFieldList])
PruneEffect ==
    /\ prunePending
    /\ lastSelectedIndexRef' =
           refAfterPrune(lastSelectedIndexRef, filteredEntityFieldList)
    /\ IF LengthOf(filteredEntityFieldList) = 0
       THEN selectedFieldPaths' = resetSelection(selectedFieldPaths)
       ELSE selectedFieldPaths' =
                IF Cardinality(selectedFieldPaths) = 0 THEN selectedFieldPaths
                ELSE pruneSelection(selectedFieldPaths, filteredEntityFieldList)
    /\ prunePending' = FALSE
    /\ UNCHANGED probe
    /\ lastEvent' = [Event("pruneEffect") EXCEPT
                        !.selectionChanged = (selectedFieldPaths' # selectedFieldPaths)]
    /\ chain' = IF selectedFieldPaths' # selectedFieldPaths THEN NoChain ELSE chain
    /\ UNCHANGED <<demParser, demView, demSelectedEntityIndex,
                   filteredEntityList, entityTransitions, filteredEntityFieldList,
                   fieldTransitions, resetPending>>

\* EntityList: disabled of the two export buttons
entityExportDisabled == ~hasEntities(entityList)

\* EntityFieldList: disabled of the two export buttons
fieldExportDisabled == ~hasExportableFields(filteredEntityFieldList, selectedFieldPaths)

\* EntityFieldList: the message "to view entity fields, select an entity from
\* the list of entities" is rendered
showsSelectEntity(selectedEntityIndex) == selectedEntityIndex = undefined

\* a faulty condition that reads the filtered list
showsEntityMissingFiltered(selectedEntityIndex, list) ==
    selectedEntityIndex # undefined /\ LengthOf(filteredEntityFieldList) = 0

\* EntityFieldList: the message "the previously selected entity does not exist
\* at the current tick" is rendered
showsEntityMissing(selectedEntityIndex, list) ==
    selectedEntityIndex # undefined /\ LengthOf(list) = 0

\* what an export handler leaves alone: every state of the two components
exportUnchanged ==
    <<demParser, demView, demSelectedEntityIndex, filteredEntityList,
      entityTransitions, filteredEntityFieldList, fieldTransitions,
      selectedFieldPaths, lastSelectedIndexRef, resetPending, prunePending, probe>>

\* EntityList.handleExportAllRaw
ExportAllRaw ==
    /\ ~resetPending
    /\ lastEvent' = [Event("exportAllRaw") EXCEPT !.download =
           exportAllRawDownload(demParser, demView = "baselineEntities")]
    /\ chain' = NoChain
    /\ UNCHANGED exportUnchanged

\* EntityList.handleExportAllJson
ExportAllJson ==
    /\ ~resetPending
    /\ lastEvent' = [Event("exportAllJson") EXCEPT !.download =
           exportAllJsonDownload(demParser, demView = "baselineEntities")]
    /\ chain' = NoChain
    /\ UNCHANGED exportUnchanged

\* EntityFieldList.handleExportRaw
ExportRaw ==
    /\ ~resetPending
    /\ lastEvent' = [Event("exportRaw") EXCEPT !.download =
           exportRawDownload(
               exportableFieldsOf(filteredEntityFieldList, selectedFieldPaths),
               fieldListBaseFileNameMemo[demParser, demView, demSelectedEntityIndex])]
    /\ chain' = NoChain
    /\ UNCHANGED exportUnchanged

\* EntityFieldList.handleExportJson
ExportJson ==
    /\ ~resetPending
    /\ lastEvent' = [Event("exportJson") EXCEPT !.download =
           exportJsonDownload(
               exportableFieldsOf(filteredEntityFieldList, selectedFieldPaths),
               fieldListBaseFileNameMemo[demParser, demView, demSelectedEntityIndex])]
    /\ chain' = NoChain
    /\ UNCHANGED exportUnchanged

Next ==
    \/ LoadParser
    \/ \E view \in Views : ViewChange(view)
    \/ \E entityIndex \in EntityIndices : EntityClick(entityIndex)
    \/ \E searchCmpFn \in EntitySearchCmpFns \cup {NoSearch} : EntityFilterUpdate(searchCmpFn)
    \/ EntityFilterCommit
    \/ \E searchCmpFn \in SearchCmpFns \cup {NoSearch} : FieldFilterUpdate(searchCmpFn)
    \/ FieldFilterCommit
    \/ \E itemIndex \in 0..(MaxRows - 1), ctrlKey, metaKey, shiftKey, eager \in BOOLEAN :
           FieldClick(itemIndex, ctrlKey, metaKey, shiftKey, eager)
    \/ ResetEffect
    \/ PruneEffect

Spec == Init /\ [][Next]_vars

\* the components when React runs every effect it has scheduled: the reset
\* effect does not stay scheduled for ever
LiveSpec == Spec /\ WF_vars(ResetEffect)

\* the components with their export buttons, and with a text filter on the
\* entity list
ExportNext ==
    \/ LoadParser
    \/ \E view \in Views : ViewChange(view)
    \/ \E entityIndex \in EntityIndices : EntityClick(entityIndex)
    \/ \E searchCmpFn \in FilterEntitySearchCmpFns \cup {NoSearch} :
           EntityFilterUpdate(searchCmpFn)
    \/ EntityFilterCommit
    \/ \E searchCmpFn \in SearchCmpFns \cup {NoSearch} :
           FieldFilterUpdate(searchCmpFn)
    \/ FieldFilterCommit
    \/ \E itemIndex \in 0..(MaxRows - 1), ctrlKey, shiftKey \in BOOLEAN :
           FieldClick(itemIndex, ctrlKey, FALSE, shiftKey, TRUE)
    \/ ResetEffect
    \/ PruneEffect
    \/ ExportAllRaw
    \/ ExportAllJson
    \/ ExportRaw
    \/ ExportJson

ExportSpec == Init /\ [][ExportNext]_vars

(***************************************************************************)
(* The normalize stage on its own: a field list of the engine is mapped    *)
(* and sorted, and the sorted list is sorted once more.                    *)
(***************************************************************************)
MaxPathLen == 2
MaxFields == 3

\* the integers of the paths: 3 is before 23 as a number and after it as text
PathParts == {1, 3, 23}

RECURSIVE pathsOfLen(_)
pathsOfLen(n) ==
    IF n = 0 THEN {<< >>}
    ELSE {<<part>> \o path : part \in PathParts, path \in pathsOfLen(n - 1)}

\* the paths of the fields: one integer at least
ProbePaths == UNION {pathsOfLen(n) : n \in 1..MaxPathLen}

\* the lists the engine may return for an entity: the value of a field tells
\* its position in the list
ProbeFieldLists ==
    UNION {{[k \in 1..n |-> EntityFieldLi(paths[k], <<"f">>, "int32", "i32",
                                         toString(k))] :
               paths \in [1..n -> ProbePaths]} : n \in 0..MaxFields}

NormalizeInit ==
    /\ Mounted
    /\ \E fields \in ProbeFieldLists :
           probe = [NoProbe EXCEPT !.fn = "listEntityFields", !.fields = fields]

\* the useMemo of EntityFieldList runs on the list of the engine
Normalize ==
    /\ probe.fn = "listEntityFields"
    /\ probe' = [probe EXCEPT !.fn = "normalize",
                              !.sorted = normalize(probe.fields)]
    /\ UNCHANGED mountedVars

\* the sort runs once more, on the list it has sorted
SortAgain ==
    /\ probe.fn = "normalize"
    /\ probe' = [probe EXCEPT !.fn = "sort",
                              !.fields = probe.sorted,
                              !.sorted = sort(probe.sorted)]
    /\ UNCHANGED mountedVars

NormalizeNext == Normalize \/ SortAgain

NormalizeSpec == NormalizeInit /\ [][NormalizeNext]_vars

(***************************************************************************)
(* The sanitization of an entity name on its own: a name is sanitized, and *)
(* the sanitized name is sanitized once more.                              *)
(***************************************************************************)
MaxNameLen == 5

\* the characters of the names: letters of both cases, a digit, the hyphen,
\* the underscore, and two characters outside the class
NameChars == {"a", "Z", "7", "-", "_", " ", "."}

RECURSIVE namesOfLen(_)
namesOfLen(n) ==
    IF n = 0 THEN {""}
    ELSE {c \o name : c \in NameChars, name \in namesOfLen(n - 1)}

\* the names an entity may have
ProbeNames == UNION {namesOfLen(n) : n \in 0..MaxNameLen}

FileNameInit ==
    /\ Mounted
    /\ \E name \in ProbeNames :
           probe = [NoProbe EXCEPT !.fn = "selectedEntityName", !.name = name]

\* baseFileName computes sanitizedName from the name of the selected entity
Sanitize ==
    /\ probe.fn = "selectedEntityName"
    /\ probe' = [probe EXCEPT !.fn = "sanitize", !.result = sanitize(probe.name)]
    /\ UNCHANGED mountedVars

\* the three replacements run once more, on the name they have produced
SanitizeAgain ==
    /\ probe.fn = "sanitize"
    /\ probe' = [probe EXCEPT !.fn = "sanitizeAgain",
                              !.name = probe.result,
                              !.result = sanitize(probe.result)]
    /\ UNCHANGED mountedVars

FileNameNext == Sanitize \/ SanitizeAgain

FileNameSpec == FileNameInit /\ [][FileNameNext]_vars

\* the filter pipelines alone: no field is clicked, and several updates may be
\* submitted before one commits
FilterNext ==
    \/ LoadParser
    \/ \E entityIndex \in EntityIndices : EntityClick(entityIndex)
    \/ \E searchCmpFn \in FilterEntitySearchCmpFns \cup {NoSearch} :
           EntityFilterResubmit(searchCmpFn)
    \/ EntityFilterCommit
    \/ \E searchCmpFn \in SearchCmpFns \cup {NoSearch} :
           FieldFilterResubmit(searchCmpFn)
    \/ FieldFilterCommit
    \/ ResetEffect
    \/ PruneEffect

FilterSpec == Init /\ [][FilterNext]_vars

(***************************************************************************)
(* Properties.  A step of a handler is named by its action, so a property  *)
(* of a handler is an action formula over the state before and after it.   *)
(***************************************************************************)
Rows == 0..(MaxRows - 1)

\* the display name of row i (0-based) of the filtered field list
pathAt(i) == filteredEntityFieldList.items[i + 1].joinedNamedPath

\* the display names of the rows lo..hi that the filtered field list has
pathsBetween(lo, hi) ==
    {pathAt(i) : i \in {j \in lo..hi : j < LengthOf(filteredEntityFieldList)}}

\* no effect is scheduled
Settled == ~resetPending /\ ~prunePending

\* C1: a plain click on row i with display name p leaves the selection as it
\* is when it is exactly {p} and makes it {p} otherwise; the anchor becomes i.
C1_PlainClick ==
    [][\A i \in Rows :
          FieldClick(i, FALSE, FALSE, FALSE, TRUE) =>
              /\ selectedFieldPaths' =
                     IF selectedFieldPaths = {pathAt(i)} THEN selectedFieldPaths
                     ELSE {pathAt(i)}
              /\ lastSelectedIndexRef' = i]_vars

\* C1 witness: a plain click on the only selected row has left it selected
C1_Witness ==
    /\ lastEvent.kind = "fieldClick"
    /\ lastEvent.mode = "plain"
    /\ ~lastEvent.selectionChanged
    /\ lastSelectedIndexRef # undefined
    /\ selectedFieldPaths = {pathAt(lastSelectedIndexRef)}

\* C2: a toggle click (ctrl or meta, not shift with an anchor) on row i with
\* display name p flips the membership of p, keeps the membership of every
\* other name and sets the anchor to i; a second toggle click on the same row
\* gives back the selection the first one found.
C2_ToggleClick ==
    [][\A i \in Rows : \A ctrlKey, metaKey, shiftKey, eager \in BOOLEAN :
          (/\ ctrlKey \/ metaKey
           /\ ~(shiftKey /\ lastSelectedIndexRef # undefined)
           /\ FieldClick(i, ctrlKey, metaKey, shiftKey, eager)) =>
              /\ (pathAt(i) \in selectedFieldPaths') = (pathAt(i) \notin selectedFieldPaths)
              /\ selectedFieldPaths' \ {pathAt(i)} = selectedFieldPaths \ {pathAt(i)}
              /\ lastSelectedIndexRef' = i
              /\ (chain.kind = "toggle" /\ chain.itemIndex = i) =>
                     selectedFieldPaths' = chain.selected]_vars

\* C2 witness: the second of two toggle clicks on a row has deselected it and
\* left another row selected
C2_Witness ==
    /\ lastEvent.kind = "fieldClick"
    /\ lastEvent.mode = "toggle"
    /\ lastEvent.repeated
    /\ lastSelectedIndexRef # undefined
    /\ pathAt(lastSelectedIndexRef) \notin selectedFieldPaths
    /\ selectedFieldPaths # {}

\* C3: a shift click on row i with anchor a makes the selection the display
\* names of the rows min(a, i)..max(a, i) of the filtered list (the same set
\* for a and i exchanged).
C3_RangeClick ==
    [][\A i \in Rows : \A ctrlKey, metaKey, eager \in BOOLEAN :
          (/\ lastSelectedIndexRef # undefined
           /\ FieldClick(i, ctrlKey, metaKey, TRUE, eager)) =>
              /\ selectedFieldPaths' =
                     pathsBetween(Min(lastSelectedIndexRef, i),
                                  Max(lastSelectedIndexRef, i))
              /\ selectedFieldPaths' =
                     pathsBetween(Min(i, lastSelectedIndexRef),
                                  Max(i, lastSelectedIndexRef))]_vars

\* C4: a shift click with an anchor leaves the anchor as it was.
C4_RangeKeepsAnchor ==
    [][\A i \in Rows : \A ctrlKey, metaKey, eager \in BOOLEAN :
          (/\ lastSelectedIndexRef # undefined
           /\ FieldClick(i, ctrlKey, metaKey, TRUE, eager)) =>
              lastSelectedIndexRef' = lastSelectedIndexRef]_vars

\* C5: a change of the selected entity or of the view schedules the reset,
\* only effects run while it is scheduled, and once it has run the selection
\* is empty and the anchor undefined, whatever they were.
C5_ResetOnEntityOrViewChange ==
    [][/\ (demSelectedEntityIndex' # demSelectedEntityIndex \/ demView' # demView)
              => resetPending'
       /\ resetPending => (ResetEffect \/ PruneEffect)
       /\ ResetEffect =>
              /\ selectedFieldPaths' = {}
              /\ lastSelectedIndexRef' = undefined
              /\ ~resetPending']_vars

\* C5 witness: the reset has emptied a non-empty selection
C5_Witness ==
    /\ lastEvent.kind = "resetEffect"
    /\ lastEvent.selectionChanged
    /\ selectedFieldPaths = {}
    /\ lastSelectedIndexRef = undefined
    /\ ~resetPending

\* C6: a commit of a filtered field list schedules the prune, and the prune
\* makes the selection its intersection with the display names of the new
\* list (the empty set when they share none).
C6_PruneIsIntersection ==
    [][/\ FieldFilterCommit => prunePending'
       /\ PruneEffect =>
              selectedFieldPaths' =
                  selectedFieldPaths \cap
                      pathsBetween(0, LengthOf(filteredEntityFieldList) - 1)]_vars

\* C6 witness: the prune has dropped a member and kept another
C6_Witness ==
    /\ lastEvent.kind = "pruneEffect"
    /\ lastEvent.selectionChanged
    /\ selectedFieldPaths # {}

\* C7: when no effect is scheduled, every selected name is the display name of
\* a row of the filtered field list.
C7_SelectionWithinFilteredList ==
    Settled =>
        selectedFieldPaths \subseteq
            pathsBetween(0, LengthOf(filteredEntityFieldList) - 1)

\* C7 witness: a range click has selected several rows of a filtered list
\* that is shorter than the unfiltered one
C7_Witness ==
    /\ Settled
    /\ lastEvent.kind = "fieldClick"
    /\ lastEvent.mode = "range"
    /\ Cardinality(selectedFieldPaths) > 1
    /\ LengthOf(filteredEntityFieldList) < LengthOf(entityFieldList)

\* C8: a click on the entity row e makes the selected entity none when it
\* was e, and e when it was none or another one.
C8_EntityClickToggles ==
    [][\A e \in EntityIndices :
          EntityClick(e) =>
              demSelectedEntityIndex' =
                  IF demSelectedEntityIndex = e THEN undefined ELSE e]_vars

\* C8 witness: a click on the selected entity has cleared the selection
C8_Witness ==
    /\ lastEvent.kind = "entityClick"
    /\ demSelectedEntityIndex = undefined

\* the row i holds a valid handle
holdsValidHandle(i) ==
    LET inner == filteredEntityFieldList.items[i + 1].inner
    IN  /\ startsWith(inner.encodedAs, "CHandle")
        /\ isEHandleValid(ToNumber(inner.value))

\* the entity index the handle of row i decodes to
handleTarget(i) ==
    eHandleToIndex(ToNumber(filteredEntityFieldList.items[i + 1].inner.value))

\* C9: a plain click on a row that holds a valid handle to entity T makes the
\* selected entity none when it was T, and T otherwise.
C9_HandleClickToggles ==
    [][\A i \in Rows :
          (FieldClick(i, FALSE, FALSE, FALSE, TRUE) /\ holdsValidHandle(i)) =>
              demSelectedEntityIndex' =
                  IF demSelectedEntityIndex = handleTarget(i) THEN undefined
                  ELSE handleTarget(i)]_vars

\* C9 witness: a plain click on a handle to the selected entity has cleared
\* the selected entity
C9_Witness ==
    /\ lastEvent.kind = "fieldClick"
    /\ lastEvent.navigated
    /\ ~lastEvent.repeated
    /\ demSelectedEntityIndex = undefined

\* the entity list of the view has an entity with this index
entityExists(index) ==
    \E k \in 1..LengthOf(entityList) : entityList.items[k].index = index

\* the step is the first plain click on row i, a valid handle to an existing
\* entity that is not the selected one
FirstHandleClick(i) ==
    /\ FieldClick(i, FALSE, FALSE, FALSE, TRUE)
    /\ holdsValidHandle(i)
    /\ entityExists(handleTarget(i))
    /\ demSelectedEntityIndex # handleTarget(i)

\* the step is the plain click on row i that follows FirstHandleClick(i)
SecondHandleClick(i) ==
    /\ FieldClick(i, FALSE, FALSE, FALSE, TRUE)
    /\ holdsValidHandle(i)
    /\ entityExists(handleTarget(i))
    /\ chain.kind = "nav"
    /\ chain.itemIndex = i

\* C10 as claimed: the first click leaves the selection {that field} and the
\* selected entity T; the second click finds that selection, leaves it and
\* sets the selected entity back to none.
C10_AsClaimed ==
    [][\A i \in Rows :
          /\ FirstHandleClick(i) =>
                 /\ selectedFieldPaths' = {pathAt(i)}
                 /\ demSelectedEntityIndex' = handleTarget(i)
          /\ SecondHandleClick(i) =>
                 /\ selectedFieldPaths = {pathAt(i)}
                 /\ selectedFieldPaths' = selectedFieldPaths
                 /\ demSelectedEntityIndex' = undefined]_vars

\* C10 as amended: the first click makes the selection {that field} and the
\* selected entity T, which schedules the reset; the reset empties the
\* selection; the second click finds it empty, makes it {that field} again,
\* sets the selected entity back to none and schedules the reset again.
C10_HandleClickTwice ==
    [][\A i \in Rows :
          /\ FirstHandleClick(i) =>
                 /\ selectedFieldPaths' = {pathAt(i)}
                 /\ demSelectedEntityIndex' = handleTarget(i)
                 /\ resetPending'
          /\ (ResetEffect /\ chain.kind = "nav") =>
                 /\ selectedFieldPaths' = {}
                 /\ lastSelectedIndexRef' = undefined
          /\ SecondHandleClick(i) =>
                 /\ selectedFieldPaths = {}
                 /\ selectedFieldPaths' = {pathAt(i)}
                 /\ demSelectedEntityIndex = handleTarget(i)
                 /\ demSelectedEntityIndex' = undefined
                 /\ resetPending']_vars

\* C10 witness: the second click has selected the field again and cleared the
\* selected entity, and the reset is scheduled
C10_Witness ==
    /\ lastEvent.kind = "fieldClick"
    /\ lastEvent.navigated
    /\ lastEvent.repeated
    /\ lastEvent.selectionChanged
    /\ selectedFieldPaths = {pathAt(lastSelectedIndexRef)}
    /\ holdsValidHandle(lastSelectedIndexRef)
    /\ entityExists(handleTarget(lastSelectedIndexRef))
    /\ demSelectedEntityIndex = undefined
    /\ resetPending

\* C11: a field click on a row that holds no valid handle, or with ctrl, meta
\* or shift held, leaves the selected entity (and so the view, the parser and
\* the lists) as it was and schedules no reset: it performs the row selection
\* alone, which makes the clicked row the anchor.
C11_InertClickKeepsEntity ==
    [][\A i \in Rows : \A ctrlKey, metaKey, shiftKey, eager \in BOOLEAN :
          (/\ i < LengthOf(filteredEntityFieldList)
           /\ eager \/ shiftKey
           /\ ctrlKey \/ metaKey \/ shiftKey \/ ~holdsValidHandle(i)
           /\ FieldClick(i, ctrlKey, metaKey, shiftKey, eager)) =>
              /\ demSelectedEntityIndex' = demSelectedEntityIndex
              /\ ~resetPending'
              /\ lastSelectedIndexRef' = i
              /\ UNCHANGED <<demParser, demView, filteredEntityList,
                             filteredEntityFieldList>>]_vars

\* C11 witness: a ctrl/meta click has selected a row that holds a valid
\* handle to an entity other than the selected one, without navigating
C11_Witness ==
    /\ lastEvent.kind = "fieldClick"
    /\ lastEvent.mode = "toggle"
    /\ ~lastEvent.navigated
    /\ lastEvent.selectionChanged
    /\ holdsValidHandle(lastSelectedIndexRef)
    /\ handleTarget(lastSelectedIndexRef) # demSelectedEntityIndex
    /\ pathAt(lastSelectedIndexRef) \in selectedFieldPaths
    /\ ~resetPending

\* result has exactly the rows of entries whose display name the predicate
\* accepts, in the order of entries; entries itself when there is no predicate
isFieldFilterOf(result, entries, searchCmpFn) ==
    IF searchCmpFn = NoSearch THEN result = entries
    ELSE IF ~entries.def THEN ~result.def
    ELSE LET kept == {k \in 1..Len(entries.items) :
                         entries.items[k].joinedNamedPath \in searchCmpFn}
         IN  /\ result.def
             /\ Len(result.items) = Cardinality(kept)
             /\ \A k \in kept :
                    result.items[Cardinality({m \in kept : m <= k})] =
                        entries.items[k]

\* the same for the entity list, whose predicate reads the entity's name
isEntityFilterOf(result, entries, searchCmpFn) ==
    IF searchCmpFn = NoSearch THEN result = entries
    ELSE IF ~entries.def THEN ~result.def
    ELSE LET kept == {k \in 1..Len(entries.items) :
                         entries.items[k].name \in searchCmpFn}
         IN  /\ result.def
             /\ Len(result.items) = Cardinality(kept)
             /\ \A k \in kept :
                    result.items[Cardinality({m \in kept : m <= k})] =
                        entries.items[k]

\* C12: a filter update of either list queues exactly the entries whose name
\* the predicate accepts, in the order of the entries (the entries themselves
\* when the predicate is absent), and a commit of the one queued update makes
\* that list the filtered list.
C12_FilterCommitsMatchingEntries ==
    [][/\ \A searchCmpFn \in SearchCmpFns \cup {NoSearch} :
              FieldFilterResubmit(searchCmpFn) =>
                  /\ Len(fieldTransitions') = Len(fieldTransitions) + 1
                  /\ isFieldFilterOf(fieldTransitions'[Len(fieldTransitions')],
                                     entityFieldList, searchCmpFn)
       /\ \A searchCmpFn \in FilterEntitySearchCmpFns \cup {NoSearch} :
              EntityFilterResubmit(searchCmpFn) =>
                  /\ Len(entityTransitions') = Len(entityTransitions) + 1
                  /\ isEntityFilterOf(entityTransitions'[Len(entityTransitions')],
                                      entityList, searchCmpFn)
       /\ (FieldFilterCommit /\ Len(fieldTransitions) = 1) =>
              filteredEntityFieldList' = fieldTransitions[1]
       /\ (EntityFilterCommit /\ Len(entityTransitions) = 1) =>
              filteredEntityList' = entityTransitions[1]]_vars

\* C12 witness: both lists have committed a proper, non-empty part of their
\* entries, and the field commit is the step just taken
C12_Witness ==
    /\ prunePending
    /\ fieldTransitions = << >>
    /\ isFieldFilterOf(filteredEntityFieldList, entityFieldList, {"a", "c"})
    /\ LengthOf(filteredEntityFieldList) = 2
    /\ LengthOf(entityFieldList) = 3
    /\ isEntityFilterOf(filteredEntityList, entityList, {"world"})
    /\ LengthOf(filteredEntityList) = 1
    /\ LengthOf(entityList) = 2

sourceFieldsOf(view, entityIndex) ==
    LET fields == IF view = "baselineEntities"
                  THEN listBaselineEntityFields(entityIndex)
                  ELSE listEntityFields(entityIndex)
    IN  IF fields.def THEN fields.items ELSE << >>

\* exported has one record per entity of the source list of the view, in the
\* order of the source, each with every field of the entity
isCompleteExport(exported, parser, view) ==
    LET source == entityListOf(parser, view)
    IN  /\ Len(exported) = LengthOf(source)
        /\ \A k \in 1..Len(exported) :
              LET fields == sourceFieldsOf(view, source.items[k].index)
              IN  /\ exported[k].index = source.items[k].index
                  /\ exported[k].name = source.items[k].name
                  /\ Len(exported[k].fields) = Len(fields)
                  /\ \A j \in 1..Len(fields) :
                        /\ exported[k].fields[j].pathSegments = fields[j].path
                        /\ exported[k].fields[j].path = join(fields[j].namedPath, ".")
                        /\ exported[k].fields[j].encodedAs = fields[j].encodedAs
                        /\ exported[k].fields[j].decodedAs = fields[j].decodedAs
                        /\ exported[k].fields[j].value = fields[j].value

\* the lines of a text export that open the record of an entity
entityHeaderLines(lines) ==
    LET isHeader(line) == Len(line) >= 7 /\ SubSeq(line, 1, 7) = "entity "
    IN  SelectSeq(lines, isHeader)

\* the lines of a text export that hold a field, or say that there is none
entityFieldLines(lines) ==
    LET isField(line) == Len(line) >= 2 /\ SubSeq(line, 1, 2) = "  "
    IN  SelectSeq(lines, isField)

\* the text export has one header line per entity of the source list, in the
\* order of the source, and one line per field of these entities (one line
\* for an entity without fields)
isCompleteTextExport(lines, parser, view) ==
    LET source == entityListOf(parser, view)
        headers == entityHeaderLines(lines)
        fieldLinesOf(k) == Max(1, Len(sourceFieldsOf(view, source.items[k].index)))
        Sum[k \in 0..LengthOf(source)] ==
            IF k = 0 THEN 0 ELSE Sum[k - 1] + fieldLinesOf(k)
    IN  /\ Len(headers) = LengthOf(source)
        /\ \A k \in 1..Len(headers) :
              headers[k] = "entity " \o toString(source.items[k].index) \o ": "
                               \o source.items[k].name
        /\ Len(entityFieldLines(lines)) = Sum[LengthOf(source)]

\* C14: whatever the text filter of the entity list has committed and whatever
\* fields are selected, the JSON export and the text export of the entity
\* list hold one record for every entity the source returns for the current
\* view, in the order of the source, each with all the fields of the entity
C14_EntityExportIsComplete ==
    [][/\ (lastEvent'.kind = "exportAllJson" /\ ExportAllJson) =>
             isCompleteExport(lastEvent'.download.entities, demParser, demView)
       /\ (lastEvent'.kind = "exportAllRaw" /\ ExportAllRaw) =>
             isCompleteTextExport(lastEvent'.download.lines, demParser, demView)]_vars

\* an export of the entity list taken while the text filter hides an entity
\* and a field is selected holds both entities of the source
C14_Witness ==
    /\ lastEvent.kind = "exportAllJson"
    /\ LengthOf(filteredEntityList) < LengthOf(entityListOf(demParser, demView))
    /\ selectedFieldPaths # {}
    /\ Len(lastEvent.download.entities) = 2
    /\ demView = "baselineEntities"

(***************************************************************************)
(* C15.  The field-list export holds the selected rows of the filtered     *)
(* list, or all its rows when none of them is selected.                    *)
(***************************************************************************)
\* the positions of the rows of the filtered list that the export holds
exportedRows ==
    LET rows == visibleFieldsOf(filteredEntityFieldList)
        selectedRows == {k \in 1..Len(rows) :
                            rows[k].joinedNamedPath \in selectedFieldPaths}
    IN  IF selectedRows # {} THEN selectedRows ELSE 1..Len(rows)

\* the row of the filtered list that the k-th record of the export is for
exportedRow(k) ==
    LET rows == visibleFieldsOf(filteredEntityFieldList)
    IN  rows[CHOOSE m \in exportedRows :
                 Cardinality({n \in exportedRows : n <= m}) = k]

\* C15: the text export and the JSON export of the field list hold one record
\* per row of the filtered list whose display name is selected, or per row of
\* the filtered list when no such row is selected, in the order of the
\* filtered list, which is the sorted order of the rows
C15_FieldExportIsSelectionOrFiltered ==
    [][/\ (lastEvent'.kind = "exportJson" /\ ExportJson) =>
              LET fields == lastEvent'.download.fields
              IN  /\ Len(fields) = Cardinality(exportedRows)
                  /\ \A k \in 1..Len(fields) :
                        /\ fields[k].path = exportedRow(k).joinedNamedPath
                        /\ fields[k].encodedAs = exportedRow(k).inner.encodedAs
                        /\ fields[k].decodedAs = exportedRow(k).inner.decodedAs
                        /\ fields[k].value = exportedRow(k).inner.value
       /\ (lastEvent'.kind = "exportRaw" /\ ExportRaw) =>
              LET lines == lastEvent'.download.lines
              IN  /\ Len(lines) = Cardinality(exportedRows)
                  /\ \A k \in 1..Len(lines) :
                        lines[k] = exportedRow(k).joinedNamedPath \o ": "
                                       \o exportedRow(k).inner.value
       /\ (lastEvent'.kind \in {"exportJson", "exportRaw"}
              /\ (ExportJson \/ ExportRaw)) =>
              \A k \in 1..(LengthOf(filteredEntityFieldList) - 1) :
                  comparePaths(filteredEntityFieldList.items[k],
                               filteredEntityFieldList.items[k + 1]) <= 0]_vars

\* a JSON export taken while the filter hides a row of the entity and one of
\* the two rows it keeps is selected holds that row alone
C15_Witness ==
    /\ lastEvent.kind = "exportJson"
    /\ LengthOf(entityFieldList) = 3
    /\ LengthOf(filteredEntityFieldList) = 2
    /\ Cardinality(exportedRows) = 1
    /\ Len(lastEvent.download.fields) = 1

(***************************************************************************)
(* C16.  An export with nothing to export does nothing, and its button is  *)
(* disabled exactly then.                                                  *)
(***************************************************************************)
\* the entity-list export has no record to write: no decoding engine, or no
\* entity in the source list of the view
noEntityToExport ==
    \/ ~demParser
    \/ LengthOf(IF demView = "baselineEntities" THEN listBaselineEntities
                ELSE listEntities) = 0

\* the field-list export has no record to write: the filtered list has no
\* row, selected or not
noFieldToExport == LengthOf(filteredEntityFieldList) = 0

selectedEntityHasNoField ==
    \/ ~demParser
    \/ Len(sourceFieldsOf(demView, demSelectedEntityIndex)) = 0

\* C17: the message to select an entity is rendered exactly when no entity is
\* selected, the message that the entity does not exist at the tick exactly
\* when an entity is selected and the source has no field for it, never both,
\* and neither of them when the entity has fields, whatever the filter keeps
C17_GuidanceMessages ==
    /\ showsSelectEntity(demSelectedEntityIndex) <=>
           demSelectedEntityIndex \notin EntityIndices
    /\ showsEntityMissing(demSelectedEntityIndex, entityFieldList) <=>
           (demSelectedEntityIndex \in EntityIndices /\ selectedEntityHasNoField)
    /\ ~(showsSelectEntity(demSelectedEntityIndex)
            /\ showsEntityMissing(demSelectedEntityIndex, entityFieldList))
    /\ (demSelectedEntityIndex \in EntityIndices /\ ~selectedEntityHasNoField) =>
           /\ ~showsSelectEntity(demSelectedEntityIndex)
           /\ ~showsEntityMissing(demSelectedEntityIndex, entityFieldList)

\* an entity with fields is selected and the committed filter matches none of
\* them: neither message is rendered
C17_Witness ==
    /\ demSelectedEntityIndex \in EntityIndices
    /\ ~selectedEntityHasNoField
    /\ filteredEntityFieldList = Some(<< >>)
    /\ ~resetPending
    /\ ~showsSelectEntity(demSelectedEntityIndex)
    /\ ~showsEntityMissing(demSelectedEntityIndex, entityFieldList)

(***************************************************************************)
(* C18.  The normalize stage sorts by a total order on paths.              *)
(***************************************************************************)
\* a is before b, or equal to it: at the first position where they differ a
\* holds the lesser integer, and when they differ nowhere a is not longer
pathLeq(a, b) ==
    LET differ == {i \in 1..Min(Len(a), Len(b)) : a[i] # b[i]}
    IN  IF differ = {} THEN Len(a) <= Len(b)
        ELSE LET first == CHOOSE i \in differ : \A m \in differ : i <= m
             IN  a[first] < b[first]

\* pathLeq is a total order on the paths, and the comparator of the sort is
\* negative, zero or positive as pathLeq tells
pathOrderIsTotal ==
    /\ \A a, b \in ProbePaths :
          /\ pathLeq(a, b) \/ pathLeq(b, a)
          /\ (pathLeq(a, b) /\ pathLeq(b, a)) => a = b
          /\ (comparePathsFrom(a, b, 1) <= 0) <=> pathLeq(a, b)
          /\ (comparePathsFrom(a, b, 1) = 0) <=> (a = b)
    /\ \A a, b, c \in ProbePaths :
          (pathLeq(a, b) /\ pathLeq(b, c)) => pathLeq(a, c)

\* how many times x is in list
occurrences(list, x) == Cardinality({k \in 1..Len(list) : list[k] = x})

\* C18: the comparator of the normalize stage is a total order on paths that
\* compares the integers position by position and puts a path before the
\* paths it starts; the sorted list holds the fields of the engine's list,
\* each as many times, with every two neighbours in that order; and sorting
\* the sorted list returns it unchanged
C18_NormalizeSortsByTotalOrder ==
    /\ pathOrderIsTotal
    /\ probe.fn = "normalize" =>
          /\ Len(probe.sorted) = Len(probe.fields)
          /\ \A k \in 1..Len(probe.fields) :
                occurrences(probe.sorted, Wrap(probe.fields[k])) =
                    occurrences(probe.fields, probe.fields[k])
          /\ \A k \in 1..(Len(probe.sorted) - 1) :
                pathLeq(probe.sorted[k].inner.path, probe.sorted[k + 1].inner.path)
    /\ probe.fn = "sort" => probe.sorted = probe.fields

\* the engine's list <<[23], [3, 1], [3]>> is sorted to <<[3], [3, 1], [23]>>:
\* 3 is before 23, and [3] is before [3, 1]
C18_Witness ==
    /\ probe.fn = "normalize"
    /\ [k \in 1..Len(probe.fields) |-> probe.fields[k].path] =
           <<<<23>>, <<3, 1>>, <<3>>>>
    /\ [k \in 1..Len(probe.sorted) |-> probe.sorted[k].inner.path] =
           <<<<3>>, <<3, 1>>, <<23>>>>

(***************************************************************************)
(* C19.  The sanitization of an entity name for a file name.               *)
(***************************************************************************)
\* a letter, a digit or the hyphen: a character that the sanitization keeps
\* wherever it stands
isWordChar(c) == c # "_" /\ isFileNameChar(c)

\* the positions of name where a maximal run of such characters starts
wordStarts(name) ==
    {i \in 1..Len(name) :
        /\ isWordChar(SubSeq(name, i, i))
        /\ (i = 1 \/ ~isWordChar(SubSeq(name, i - 1, i - 1)))}

\* the maximal run of such characters that starts at position i
wordAt(name, i) ==
    LET ends == {j \in i..Len(name) :
                    /\ \A m \in i..j : isWordChar(SubSeq(name, m, m))
                    /\ (j = Len(name) \/ ~isWordChar(SubSeq(name, j + 1, j + 1)))}
    IN  SubSeq(name, i, CHOOSE j \in ends : TRUE)

\* the maximal runs of such characters, in the order they have in name
wordsOf(name) ==
    LET starts == wordStarts(name)
    IN  [k \in 1..Cardinality(starts) |->
            wordAt(name, CHOOSE i \in starts :
                             Cardinality({m \in starts : m <= i}) = k)]

\* C19: the sanitized name holds only characters of [a-zA-Z0-9-_], has no two
\* underscores in a row and no underscore at either end; it is made of the
\* runs of letters, digits and hyphens of the name, in order, with one
\* underscore in the place of everything between two of them, so that a run
\* of other characters between two such runs becomes one underscore; and
\* sanitizing the sanitized name returns it unchanged
C19_SanitizedFileName ==
    /\ probe.fn = "sanitize" =>
          /\ \A i \in 1..Len(probe.result) :
                isFileNameChar(SubSeq(probe.result, i, i))
          /\ \A i \in 1..(Len(probe.result) - 1) :
                SubSeq(probe.result, i, i + 1) # "__"
          /\ Len(probe.result) > 0 =>
                /\ SubSeq(probe.result, 1, 1) # "_"
                /\ SubSeq(probe.result, Len(probe.result), Len(probe.result)) # "_"
          /\ probe.result = join(wordsOf(probe.name), "_")
    /\ probe.fn = "sanitizeAgain" => probe.result = probe.name

\* the name ".a _Z" becomes "a_Z": the dot at the start leaves no underscore,
\* and the space and the underscore between a and Z leave one
C19_Witness ==
    /\ probe.fn = "sanitize"
    /\ probe.name = ".a _Z"
    /\ probe.result = "a_Z"

(***************************************************************************)
(* C20.  The key of a display field that is derived from its path.         *)
(***************************************************************************)
\* the decimal digit of n at a place (1, 10, 100 or 1000)
digitAt(n, place) == DigitChar((n \div place) % 10)

\* the four characters of an integer below 10000: its decimal digits, after
\* as many fill characters as it takes
paddedPart(n, fill) ==
    (IF n >= 1000 THEN digitAt(n, 1000) ELSE fill)
    \o (IF n >= 100 THEN digitAt(n, 100) ELSE fill)
    \o (IF n >= 10 THEN digitAt(n, 10) ELSE fill)
    \o digitAt(n, 1)

RECURSIVE paddedKey(_, _)
\* the padded integers of a path, one after the other
paddedKey(path, fill) ==
    IF Len(path) = 0 THEN ""
    ELSE paddedPart(Head(path), fill) \o paddedKey(Tail(path), fill)

\* C20: the key derived from the path of a display field is the row of its
\* path integers in decimal, each padded on the left with spaces to four
\* characters: the path [1, 23] gives "   1  23"
C20_SortKeyIsSpacePadded ==
    probe.fn = "normalize" =>
        \A k \in 1..Len(probe.sorted) :
            /\ probe.sorted[k].joinedPath =
                   paddedKey(probe.sorted[k].inner.path, " ")
            /\ Len(probe.sorted[k].joinedPath) = 4 * Len(probe.sorted[k].inner.path)

\* the field of path [1, 23] has the key "   1  23"
C20_Witness ==
    /\ probe.fn = "normalize"
    /\ \E k \in 1..Len(probe.sorted) :
          /\ probe.sorted[k].inner.path = <<1, 23>>
          /\ probe.sorted[k].joinedPath = "   1  23"

\* C20 as claimed: each path integer is padded on the left with the digit
\* zero to four characters, so that the path [1, 23] gives "00010023"
C20_AsClaimed ==
    probe.fn = "normalize" =>
        \A k \in 1..Len(probe.sorted) :
            probe.sorted[k].joinedPath = paddedKey(probe.sorted[k].inner.path, "0")

(***************************************************************************)
(* C21.  The range of a shift click and the time its updater is evaluated. *)
(***************************************************************************)
\* C21: a shift click on row i with an anchor on another row of the filtered
\* list selects the rows between the anchor as it was before the click and i,
\* and never the row i alone, whether React evaluates the updater inside
\* setSelectedFieldPaths or after the handler has written i to the anchor
C21_RangeReadsAnchorBeforeClick ==
    [][\A i \in Rows : \A ctrlKey, metaKey, eager \in BOOLEAN :
          (/\ i < LengthOf(filteredEntityFieldList)
           /\ lastSelectedIndexRef # undefined
           /\ lastSelectedIndexRef # i
           /\ lastSelectedIndexRef < LengthOf(filteredEntityFieldList)
           /\ FieldClick(i, ctrlKey, metaKey, TRUE, eager)) =>
              /\ selectedFieldPaths' # {pathAt(i)}
              /\ pathAt(lastSelectedIndexRef) \in selectedFieldPaths']_vars

(***************************************************************************)
(* C22.  A shift click with any anchor selects a block of rows.            *)
(***************************************************************************)
\* C22: a shift click on row i, whatever the anchor is (none, a row of the
\* filtered list, or an index the list no longer has since it shrank), makes
\* the selection the display names of the rows lo..hi of the filtered list
\* for some lo <= i <= hi within the list: a block of neighbouring rows that
\* holds row i and no name from outside the filtered list
C22_RangeIsBlockOfFilteredRows ==
    [][\A i \in Rows : \A ctrlKey, metaKey, eager \in BOOLEAN :
          (/\ i < LengthOf(filteredEntityFieldList)
           /\ FieldClick(i, ctrlKey, metaKey, TRUE, eager)) =>
              /\ \E lo, hi \in Rows :
                    /\ lo <= i /\ i <= hi
                    /\ hi < LengthOf(filteredEntityFieldList)
                    /\ selectedFieldPaths' = pathsBetween(lo, hi)
              /\ pathAt(i) \in selectedFieldPaths'
              /\ selectedFieldPaths' \subseteq
                     pathsBetween(0, LengthOf(filteredEntityFieldList) - 1)]_vars

\* a shift click has taken the range branch with an anchor beyond the end of
\* the filtered list, which shrank after the anchor was set, and has selected
\* several rows of the list
C22_Witness ==
    /\ lastEvent.kind = "fieldClick"
    /\ lastEvent.mode = "range"
    /\ lastEvent.anchor = "stale"
    /\ lastEvent.eager
    /\ Cardinality(selectedFieldPaths) > 1
    /\ LengthOf(filteredEntityFieldList) < LengthOf(entityFieldList)

(***************************************************************************)
(* C23.  A shift click without an anchor.                                  *)
(***************************************************************************)
\* C23: a shift click without ctrl and meta on row i with display name p,
\* taken when there is no anchor, leaves the selection as it is when it is
\* exactly {p} and makes it {p} otherwise, makes i the anchor, and leaves the
\* selected entity as it was and schedules no reset, also when row i holds a
\* valid handle, whenever React evaluates the updater
C23_ShiftClickWithoutAnchor ==
    [][\A i \in Rows : \A eager \in BOOLEAN :
          (/\ i < LengthOf(filteredEntityFieldList)
           /\ lastSelectedIndexRef = undefined
           /\ FieldClick(i, FALSE, FALSE, TRUE, eager)) =>
              /\ selectedFieldPaths' =
                     IF selectedFieldPaths = {pathAt(i)} THEN selectedFieldPaths
                     ELSE {pathAt(i)}
              /\ lastSelectedIndexRef' = i
              /\ demSelectedEntityIndex' = demSelectedEntityIndex
              /\ ~resetPending']_vars

\* a shift click without an anchor on a row that holds a valid handle to an
\* entity other than the selected one has selected the row and has not
\* navigated
C23_Witness ==
    /\ lastEvent.kind = "fieldClick"
    /\ lastEvent.shiftKey
    /\ lastEvent.anchor = "none"
    /\ lastEvent.mode = "plain"
    /\ ~lastEvent.navigated
    /\ selectedFieldPaths = {pathAt(lastSelectedIndexRef)}
    /\ holdsValidHandle(lastSelectedIndexRef)
    /\ entityExists(handleTarget(lastSelectedIndexRef))
    /\ demSelectedEntityIndex # handleTarget(lastSelectedIndexRef)
    /\ ~resetPending

(***************************************************************************)
(* C24.  The anchor and the changes of the filtered field list.            *)
(***************************************************************************)
\* C24: a commit of a filtered field list leaves the anchor as it was, and so
\* does the prune effect that follows it when the list is not empty, also
\* when it empties the selection: the anchor keeps its index and is not moved
\* to the row that now has the name; a step makes a defined anchor undefined
\* only when it is the prune effect over an empty or absent list, or the
\* reset effect that a change of the selected entity or of the view schedules
C24_AnchorSurvivesFilterChange ==
    [][/\ FieldFilterCommit => lastSelectedIndexRef' = lastSelectedIndexRef
       /\ (PruneEffect /\ LengthOf(filteredEntityFieldList) > 0) =>
              lastSelectedIndexRef' = lastSelectedIndexRef
       /\ (lastSelectedIndexRef # undefined /\ lastSelectedIndexRef' = undefined) =>
              \/ PruneEffect /\ LengthOf(filteredEntityFieldList) = 0
              \/ ResetEffect
       /\ (resetPending' /\ ~resetPending) =>
              (demSelectedEntityIndex' # demSelectedEntityIndex \/ demView' # demView)]_vars

\* the prune effect has emptied the selection over a list that is not empty,
\* and the anchor still is the index it was, now at or beyond another row
C24_Witness ==
    /\ lastEvent.kind = "pruneEffect"
    /\ lastEvent.selectionChanged
    /\ selectedFieldPaths = {}
    /\ LengthOf(filteredEntityFieldList) > 0
    /\ lastSelectedIndexRef # undefined

(***************************************************************************)
(* C25.  The selection made by a click that navigates.                     *)
(***************************************************************************)
\* the step taken last is a plain click on a valid handle that has changed the
\* selected entity, and the reset it has scheduled has not run yet
NavigatedClick ==
    /\ lastEvent.kind = "fieldClick"
    /\ lastEvent.navigated
    /\ resetPending

\* the reset effect has just run and has left no selection and no anchor
SelectionReset ==
    /\ lastEvent.kind = "resetEffect"
    /\ selectedFieldPaths = {}
    /\ lastSelectedIndexRef = undefined
    /\ ~resetPending

\* C25: a plain click on a valid handle that navigates changes the selected
\* entity and schedules the reset effect; until the reset effect runs no
\* handler runs, only the prune effect may, which adds nothing to the
\* selection; the reset effect leaves the selection empty and the anchor
\* undefined; and the reset effect does run
C25_NavigationResetsSelection ==
    /\ [][/\ (lastEvent'.kind = "fieldClick" /\ lastEvent'.navigated) =>
                 /\ demSelectedEntityIndex' # demSelectedEntityIndex
                 /\ selectedFieldPaths' = {pathAt(lastSelectedIndexRef')}
                 /\ NavigatedClick'
          /\ (resetPending /\ ~ResetEffect) =>
                 /\ PruneEffect
                 /\ resetPending'
                 /\ selectedFieldPaths' \subseteq selectedFieldPaths
          /\ (resetPending /\ ResetEffect) => SelectionReset']_vars
    /\ NavigatedClick ~> SelectionReset

\* the reset effect has emptied the selection that a click made when it
\* navigated to the entity that is now selected
C25_Witness ==
    /\ SelectionReset
    /\ lastEvent.selectionChanged
    /\ chain.kind = "nav"
    /\ demSelectedEntityIndex # undefined

=============================================================================
